---- MODULE Spec2Model ----
(***************************************************************************)
(* State-machine model of src/src/flb_input.c (Fluent Bit input core):     *)
(* the instance registry, the collector registry with its dispatch, and    *)
(* the dynamic-tag buffer pool.                                            *)
(*                                                                         *)
(* Conventions                                                             *)
(*  - a C string is a sequence of one-character strings; a tag, which the  *)
(*    code carries as (char *, length), is a sequence of byte values and   *)
(*    may hold the byte 0;                                                 *)
(*  - a mk_list is a sequence, mk_list_add appends at the tail;            *)
(*  - a pointer to an instance is the instance's allocation number (ptr),  *)
(*    a null pointer to an instance is 0;                                  *)
(*  - NULL is the string "NULL";                                           *)
(*  - a msgpack_sbuffer is the sequence of the blocks written to it, its   *)
(*    size the sum of the blocks' byte lengths;                            *)
(*  - flb_malloc, msgpack_zone_new and msgpack_sbuffer_write are taken to  *)
(*    succeed: no claim is about memory exhaustion.                        *)
(***************************************************************************)
EXTENDS Integers, Sequences, FiniteSets, TLC

NULL == "NULL"

(* ------------------------------ bounds --------------------------------- *)

\* flb_input_new calls made over a run
MaxCreates == 3
\* collectors in config->collectors
MaxCollectors == 2
\* collectors in config->collectors in the lifecycle specification
MaxLifeCollectors == 1
\* descriptor numbers the process can hold: 1..MaxFd
MaxFd == 2
\* dyntag nodes in one instance's list
MaxDyntags == 2
\* blocks packed into an instance's own buffer between two flushes
MaxPack == 1
\* worker tasks in progress
MaxThreads == 2
\* the properties an instance's list holds at most
MaxProps == 2

(* ----------------------- the plugin table ------------------------------ *)

FLB_INPUT_NET == "NET"
FLB_INPUT_THREAD == "THREAD"
FLB_INPUT_DYN_TAG == "DYN_TAG"

\* config->in_plugins: the registered plugin types, in registration order.
\* "a" is a prefix of "ab": the raw argument "ab" matches both.
in_plugins ==
  << [name |-> <<"a">>,      flags |-> {}],
     [name |-> <<"a", "b">>, flags |-> {FLB_INPUT_NET, FLB_INPUT_THREAD}],
     [name |-> <<"d">>,      flags |-> {FLB_INPUT_DYN_TAG}] >>

\* the raw arguments flb_input_new is called with
Inputs == { <<"a">>, <<"A", "b">>, <<"d">>, <<"x">> }

ToLower(c) ==
  CASE c = "A" -> "a"
    [] c = "B" -> "b"
    [] c = "D" -> "d"
    [] c = "X" -> "x"
    [] OTHER   -> c

\* strncasecmp(a, b, n) == 0 for strings that both hold at least n characters
StrnCaseEq(a, b, n) == \A k \in 1..n : ToLower(a[k]) = ToLower(b[k])

check_protocol(prot, output) ==
  IF Len(prot) > Len(output) THEN FALSE
  ELSE StrnCaseEq(prot, output, Len(prot))

\* "%i" of a small non-negative integer
Digit(d) == CASE d = 0 -> "0" [] d = 1 -> "1" [] d = 2 -> "2" [] d = 3 -> "3"
              [] d = 4 -> "4" [] d = 5 -> "5" [] d = 6 -> "6" [] d = 7 -> "7"
              [] d = 8 -> "8" [] OTHER -> "9"

RECURSIVE FormatInt(_)
FormatInt(n) == IF n < 10 THEN << Digit(n) >>
                ELSE FormatInt(n \div 10) \o << Digit(n % 10) >>

\* snprintf(name, ..., "%s.%i", plugin->name, id)
FormatName(pname, id) == pname \o << "." >> \o FormatInt(id)

(* ------------------------------ state ---------------------------------- *)

VARIABLES
  inputs,      \* config->inputs: the instance registry
  collectors,  \* config->collectors: the global collector list
  fds,         \* the descriptor numbers that are open in the process
  evl,         \* config->evl: descriptor -> mask it is subscribed with
  threads,     \* worker tasks spawned by dispatch and not yet completed
  created,     \* history: <<plugin, id>> of every instance created, in order
  cb,          \* history: collectors whose callback the last operation invoked
  calls,       \* history: the calls the last operation made on an instance's
               \* behalf (plugin callbacks, releases, requests to the engine)
  out,         \* the caller's (buf, size) of the last flush call
  last         \* history: the last operation, its arguments and return value

vars == << inputs, collectors, fds, evl, threads, created, cb, calls, out, last >>

FdPool == 1..MaxFd

\* the caller's (buf, size) when the last operation was no flush
OutNone == [buf |-> NULL, size |-> 0]

\* a: the position of the collector, instance or buffer the operation worked
\* on (0: none), or the descriptor dispatched; b: the collector dispatch
\* chose, the block appended, the timer handle a pause released, or what
\* the reactor returned to a start or a resume (0 if it was not called), or
\* the plugins matched by a create for which flb_net_host_set failed
Op(op, a, b, tag, ret) == [op |-> op, a |-> a, b |-> b, tag |-> tag, ret |-> ret]

(* ------------------------- instance registry --------------------------- *)

\* instance_id: the number of instances of plugin p now in the registry
instance_id(p, ins) == Cardinality({ k \in DOMAIN ins : ins[k].p = p })

\* the fields flb_input_new sets on a new instance of plugin p
NewInstance(ptr, p, id) ==
  [ ptr           |-> ptr,
    p             |-> p,
    id            |-> id,
    name          |-> FormatName(in_plugins[p].name, id),
    flags         |-> in_plugins[p].flags,
    tag           |-> NULL,
    threaded      |-> FLB_INPUT_THREAD \in in_plugins[p].flags,
    host_name     |-> NULL,
    host_listen   |-> NULL,
    host_port     |-> 0,
    host_ipv6     |-> FALSE,
    mp_records    |-> 0,
    mp_sbuf       |-> << >>,
    mp_buf_limit  |-> 0,
    mp_buf_status |-> "RUNNING",
    dyntags       |-> << >>,
    properties    |-> << >> ]

\* the loop of flb_input_new that keeps the first instance it created as
\* the one to return
RECURSIVE NewLoop_first(_, _, _, _, _, _)
NewLoop_first(k, ins, inst, crt, input, nf) ==
  IF k > Len(in_plugins) THEN [inputs |-> ins, created |-> crt, ret |-> inst]
  ELSE IF ~check_protocol(in_plugins[k].name, input)
    THEN NewLoop_first(k + 1, ins, inst, crt, input, nf)
  ELSE LET id  == instance_id(k, ins)
           new == NewInstance(Len(crt) + 1, k, id)
       IN IF FLB_INPUT_NET \in in_plugins[k].flags /\ k \in nf
            THEN [inputs |-> ins, created |-> crt, ret |-> 0]
            ELSE NewLoop_first(k + 1, Append(ins, new),
                               IF inst = 0 THEN new.ptr ELSE inst,
                               Append(crt, << k, id >>), input, nf)

\* The loop of flb_input_new from plugin k on. ins: the registry so far,
\* inst: the instance created last (0 if none), crt: the creation history,
\* nf: the plugins for which flb_net_host_set fails on this argument.
RECURSIVE NewLoop(_, _, _, _, _, _)
NewLoop(k, ins, inst, crt, input, nf) ==
  IF k > Len(in_plugins) THEN [inputs |-> ins, created |-> crt, ret |-> inst]
  ELSE IF ~check_protocol(in_plugins[k].name, input)
    THEN NewLoop(k + 1, ins, inst, crt, input, nf)
  ELSE LET id  == instance_id(k, ins)
           new == NewInstance(Len(crt) + 1, k, id)
       IN IF FLB_INPUT_NET \in in_plugins[k].flags /\ k \in nf
            \* flb_free(instance); return NULL: what was added stays
            THEN [inputs |-> ins, created |-> crt, ret |-> 0]
            ELSE NewLoop(k + 1, Append(ins, new), new.ptr,
                         Append(crt, << k, id >>), input, nf)

flb_input_new(ins, crt, input, nf) == NewLoop(1, ins, 0, crt, input, nf)

NetPlugins == { k \in DOMAIN in_plugins : FLB_INPUT_NET \in in_plugins[k].flags }

\* flb_input_new(config, input, data)
New(input) ==
  /\ Len(created) < MaxCreates
  /\ \E nf \in SUBSET NetPlugins :
       LET r == flb_input_new(inputs, created, input, nf)
       IN /\ inputs' = r.inputs
          /\ created' = r.created
          /\ last' = Op("new", 0,
                        { k \in nf : check_protocol(in_plugins[k].name, input) },
                        input, r.ret)
  /\ cb' = << >>
  /\ calls' = << >>
  /\ UNCHANGED << collectors, fds, evl, threads, out >>

(* --- properties --- *)

\* flb_env_var_translate on a value that holds no ${...} placeholder
Translate(v) == v

IsDigit(c) == c \in {"0", "1", "2", "3", "4", "5", "6", "7", "8", "9"}

DigitVal(c) == CHOOSE d \in 0..9 : Digit(d) = c

\* atoi: the leading digits of the string, 0 if there are none
RECURSIVE AtoiFrom(_, _, _)
AtoiFrom(s, k, acc) ==
  IF k > Len(s) \/ ~IsDigit(s[k]) THEN acc
  ELSE AtoiFrom(s, k + 1, acc * 10 + DigitVal(s[k]))

Atoi(s) == AtoiFrom(s, 1, 0)

\* flb_utils_size_to_bytes: digits with an optional K, M or G suffix, else -1
SizeToBytes(s) ==
  LET n    == Len(s)
      sufx == IF n > 0 /\ ~IsDigit(s[n]) THEN ToLower(s[n]) ELSE ""
      m    == IF sufx = "" THEN n ELSE n - 1
  IN IF m = 0 \/ \E k \in 1..m : ~IsDigit(s[k]) THEN -1
     ELSE CASE sufx = ""  -> Atoi(s)
            [] sufx = "k" -> Atoi(s) * 1024
            [] sufx = "m" -> Atoi(s) * 1024 * 1024
            [] sufx = "g" -> Atoi(s) * 1024 * 1024 * 1024
            [] OTHER      -> -1

\* flb_utils_bool
Bool(s) == \/ (Len(s) = 2 /\ StrnCaseEq(s, <<"o", "n">>, 2))
           \/ (Len(s) = 4 /\ StrnCaseEq(s, <<"t", "r", "u", "e">>, 4))

prop_key_check(key, kv, k_len) ==
  Len(kv) >= k_len /\ Len(key) = k_len /\ StrnCaseEq(key, kv, k_len)

\* flb_input_set_property(in, k, v): the instance after the call and the
\* return value
set_property(in, k, v) ==
  LET len == Len(k)
      t   == IF v = NULL THEN NULL ELSE Translate(v)
      tmp == IF t # NULL /\ Len(t) = 0 THEN NULL ELSE t
  IN IF prop_key_check(<<"t", "a", "g">>, k, len) /\ tmp # NULL
       THEN [in |-> [in EXCEPT !.tag = tmp], ret |-> 0]
     ELSE IF prop_key_check(<<"m","e","m","_","b","u","f","_","l","i","m","i","t">>,
                            k, len) /\ tmp # NULL
       THEN IF SizeToBytes(tmp) = -1
              THEN [in |-> in, ret |-> -1]
              ELSE [in |-> [in EXCEPT !.mp_buf_limit = SizeToBytes(tmp)], ret |-> 0]
     ELSE IF prop_key_check(<<"l", "i", "s", "t", "e", "n">>, k, len)
       THEN [in |-> [in EXCEPT !.host_listen = tmp], ret |-> 0]
     ELSE IF prop_key_check(<<"h", "o", "s", "t">>, k, len)
       THEN [in |-> [in EXCEPT !.host_name = tmp], ret |-> 0]
     ELSE IF prop_key_check(<<"p", "o", "r", "t">>, k, len)
       THEN [in |-> IF tmp # NULL THEN [in EXCEPT !.host_port = Atoi(tmp)] ELSE in,
             ret |-> 0]
     ELSE IF prop_key_check(<<"i", "p", "v", "6">>, k, len) /\ tmp # NULL
       THEN [in |-> [in EXCEPT !.host_ipv6 = Bool(tmp)], ret |-> 0]
     ELSE [in |-> [in EXCEPT !.properties = Append(@, [key |-> k, val |-> tmp])],
           ret |-> 0]

\* the keys and values flb_input_set_property is called with
PropKeys == { <<"t", "a", "g">>, <<"T", "a", "g">>,
              <<"m","e","m","_","b","u","f","_","l","i","m","i","t">>,
              <<"p", "o", "r", "t">>, <<"k">> }

PropVals == { << >>, <<"2", "k">>, <<"z">> }

\* flb_input_set_property(in, k, v) on instance i
SetProperty(i, k, v) ==
  /\ Len(inputs[i].properties) < MaxProps
  /\ inputs' = [inputs EXCEPT ![i] = set_property(@, k, v).in]
  /\ last' = Op("set_property", i, v, k, set_property(inputs[i], k, v).ret)
  /\ cb' = << >>
  /\ calls' = << >>
  /\ UNCHANGED << collectors, fds, evl, threads, created, out >>

(* --- collectors: registration --- *)

FLB_COLLECT_TIME == "TIME"
FLB_COLLECT_FD_EVENT == "FD_EVENT"
FLB_COLLECT_FD_SERVER == "FD_SERVER"

\* in->collectors: the collectors of instance ptr, in registration order
InsCollectors(colls, ptr) ==
  SelectSeq(colls, LAMBDA c : c.instance = ptr)

\* collector_id: one more than the id of the instance's last collector
collector_id(colls, ptr) ==
  LET own == InsCollectors(colls, ptr)
  IN IF Len(own) = 0 THEN 0 ELSE own[Len(own)].id + 1

NewCollector(id, type, fd, ptr) ==
  [ id       |-> id,
    type     |-> type,
    fd_event |-> fd,
    fd_timer |-> -1,
    instance |-> ptr,
    running  |-> FALSE ]

\* flb_input_set_collector_time: the global list after the call
set_collector_time(colls, ptr) ==
  Append(colls, NewCollector(collector_id(colls, ptr), FLB_COLLECT_TIME, -1, ptr))

(* --- initialization and exit --- *)

\* what a plugin's cb_init does: it may register a TIME collector, and it
\* returns 0 or -1
InitOutcomes == [reg : BOOLEAN, ret : {0, -1}]

\* The loop of flb_input_initialize_all from instance k on. ins: the
\* registry at the start, acc: the instances kept so far, oc: the outcome of
\* each instance's cb_init.
RECURSIVE InitLoop(_, _, _, _, _)
InitLoop(k, ins, acc, colls, oc) ==
  IF k > Len(ins) THEN [inputs |-> acc, collectors |-> colls]
  ELSE LET in0 == ins[k]
           in1 == IF in0.tag = NULL /\ FLB_INPUT_DYN_TAG \notin in0.flags
                    THEN set_property(in0, <<"t", "a", "g">>, in0.name).in
                    ELSE in0
           c1  == IF oc[k].reg /\ Len(colls) < MaxCollectors
                    THEN set_collector_time(colls, in1.ptr)
                    ELSE colls
       IN IF oc[k].ret # 0
            \* mk_list_del(&in->_head); ...; flb_free(in)
            THEN InitLoop(k + 1, ins, acc, c1, oc)
            ELSE InitLoop(k + 1, ins, Append(acc, in1), c1, oc)

\* a call made on behalf of the instance ptr
Call(f, ptr) == [f |-> f, ptr |-> ptr]

\* the calls flb_input_initialize_all makes from instance k on: cb_init on
\* every instance, flb_free on one whose cb_init failed
RECURSIVE InitCalls(_, _, _)
InitCalls(k, ins, oc) ==
  IF k > Len(ins) THEN << >>
  ELSE << Call("cb_init", ins[k].ptr) >>
       \o (IF oc[k].ret # 0 THEN << Call("flb_free", ins[k].ptr) >> ELSE << >>)
       \o InitCalls(k + 1, ins, oc)

\* flb_input_initialize_all(config)
InitializeAll ==
  /\ Len(inputs) > 0
  /\ \E oc \in [DOMAIN inputs -> InitOutcomes] :
       LET r == InitLoop(1, inputs, << >>, collectors, oc)
       IN /\ inputs' = r.inputs
          /\ collectors' = r.collectors
          /\ calls' = InitCalls(1, inputs, oc)
  /\ last' = Op("initialize_all", 0, 0, << >>, 0)
  /\ cb' = << >>
  /\ UNCHANGED << fds, evl, threads, created, out >>

\* flb_input_buf_paused(in)
flb_input_buf_paused(in) == in.mp_buf_status = "PAUSED"

\* the plugins that define cb_pause
HasPause == { 1, 3 }

\* flb_input_pause_all that counts every instance
pause_all_countall(ins) ==
  [ inputs |-> [i \in DOMAIN ins |-> [ins[i] EXCEPT !.mp_buf_status = "PAUSED"]],
    calls  |-> SelectSeq([i \in DOMAIN ins |-> Call("cb_pause", ins[i].ptr)],
                         LAMBDA c : \E i \in DOMAIN ins :
                                      /\ ins[i].ptr = c.ptr
                                      /\ ~flb_input_buf_paused(ins[i])
                                      /\ ins[i].p \in HasPause),
    ret    |-> Len(ins) ]

\* flb_input_pause_all(config): the registry after the call, the cb_pause
\* calls made, in order, and the count returned
pause_all(ins) ==
  [ inputs |-> [i \in DOMAIN ins |-> [ins[i] EXCEPT !.mp_buf_status = "PAUSED"]],
    calls  |-> SelectSeq([i \in DOMAIN ins |-> Call("cb_pause", ins[i].ptr)],
                         LAMBDA c : \E i \in DOMAIN ins :
                                      /\ ins[i].ptr = c.ptr
                                      /\ ~flb_input_buf_paused(ins[i])
                                      /\ ins[i].p \in HasPause),
    ret    |-> Cardinality({ i \in DOMAIN ins : ~flb_input_buf_paused(ins[i]) }) ]

\* flb_input_pause_all(config)
PauseAll ==
  /\ Len(inputs) > 0
  /\ inputs' = pause_all(inputs).inputs
  /\ calls' = pause_all(inputs).calls
  /\ last' = Op("pause_all", 0, 0, << >>, pause_all(inputs).ret)
  /\ cb' = << >>
  /\ UNCHANGED << collectors, fds, evl, threads, created, out >>

\* the body of the loop of flb_input_exit_all with flb_input_dyntag_exit
\* moved before the request to the engine
exit_calls_dyntags_first(in) ==
  << Call("cb_exit", in.ptr),
     Call("msgpack_sbuffer_destroy", in.ptr) >>
  \o [j \in DOMAIN in.dyntags |-> Call("flb_input_dyntag_destroy", in.ptr)]
  \o << Call("flb_engine_destroy_tasks", in.ptr),
        Call("flb_free", in.ptr) >>

\* the calls the body of the loop of flb_input_exit_all makes for one
\* instance, in order: the plugin's cb_exit, the release of the instance's
\* own buffer, the request to the engine to destroy the pending tasks, the
\* destruction of every dyntag node (flb_input_dyntag_exit), the release of
\* the instance
exit_calls(in) ==
  << Call("cb_exit", in.ptr),
     Call("msgpack_sbuffer_destroy", in.ptr),
     Call("flb_engine_destroy_tasks", in.ptr) >>
  \o [j \in DOMAIN in.dyntags |-> Call("flb_input_dyntag_destroy", in.ptr)]
  \o << Call("flb_free", in.ptr) >>

\* the calls of flb_input_exit_all from instance k on
RECURSIVE ExitCalls(_, _)
ExitCalls(k, ins) ==
  IF k > Len(ins) THEN << >> ELSE exit_calls(ins[k]) \o ExitCalls(k + 1, ins)

\* flb_input_exit_all(config): every instance is released and unlinked
ExitAll ==
  /\ Len(inputs) > 0
  /\ inputs' = << >>
  /\ last' = Op("exit_all", 0, 0, << >>, 0)
  /\ cb' = << >>
  /\ calls' = ExitCalls(1, inputs)
  /\ UNCHANGED << collectors, fds, evl, threads, created, out >>

(* --- the registry's specification --- *)

InitCommon ==
  /\ collectors = << >>
  /\ fds = {}
  /\ evl = [fd \in FdPool |-> "NONE"]
  /\ threads = << >>
  /\ cb = << >>
  /\ calls = << >>
  /\ out = OutNone
  /\ last = Op("none", 0, 0, << >>, 0)

InitReg ==
  /\ inputs = << >>
  /\ created = << >>
  /\ InitCommon

NextReg ==
  \/ \E input \in Inputs : New(input)
  \/ InitializeAll
  \/ ExitAll

SpecReg == InitReg /\ [][NextReg]_vars

\* one instance and its properties
InitProp ==
  /\ LET r == flb_input_new(<< >>, << >>, <<"a">>, {})
     IN inputs = r.inputs /\ created = r.created
  /\ InitCommon

NextProp == \E i \in DOMAIN inputs, k \in PropKeys, v \in PropVals : SetProperty(i, k, v)

SpecProp == InitProp /\ [][NextProp]_vars

\* creation and exit alone
NextNew ==
  \/ \E input \in Inputs : New(input)
  \/ ExitAll

SpecNew == InitReg /\ [][NextNew]_vars

(* ------------------------------ reactor -------------------------------- *)
(* The event loop is used through mk_event_timeout_create, mk_event_add,   *)
(* mk_event_del and close. A descriptor number is free once closed and the *)
(* next descriptor created may get it again; closing a descriptor drops    *)
(* its subscription. Any reactor call may fail.                            *)

\* close(fd)
Close(f, fd) == f \ {fd}

Unsubscribed(e, fd) == IF fd \in FdPool THEN [e EXCEPT ![fd] = "NONE"] ELSE e

Subscribed(e, fd, mask) == [e EXCEPT ![fd] = mask]

\* the results mk_event_timeout_create can have: a descriptor number that is
\* not open, or -1
TimerResults(f) == (FdPool \ f) \cup {-1}

\* the results mk_event_add can have on descriptor fd: 0 only if it is open
AddResults(f, fd) == IF fd \in f THEN {0, -1} ELSE {-1}

(* ------------------------- collector registry -------------------------- *)

IsFd(type) == type \in {FLB_COLLECT_FD_EVENT, FLB_COLLECT_FD_SERVER}

\* flb_input_set_collector_event: the global list after the call
set_collector_event(colls, ptr, fd) ==
  Append(colls, NewCollector(collector_id(colls, ptr), FLB_COLLECT_FD_EVENT, fd, ptr))

\* the values the never-assigned id field of a malloc'ed collector can hold:
\* one that is no id of the instance and one that is the id of another
\* collector
UninitIds == {-1, 0}

\* flb_input_set_collector_socket: collector->id is not assigned
set_collector_socket(colls, ptr, fd, garbage) ==
  Append(colls, NewCollector(garbage, FLB_COLLECT_FD_SERVER, fd, ptr))

\* flb_input_set_collector_time(in, cb, seconds, nanoseconds, config)
SetCollectorTime(i) ==
  /\ Len(collectors) < MaxCollectors
  /\ collectors' = set_collector_time(collectors, inputs[i].ptr)
  /\ last' = Op("set_collector_time", Len(collectors'), 0, << >>, collectors'[Len(collectors')].id)
  /\ cb' = << >>
  /\ calls' = << >>
  /\ UNCHANGED << inputs, fds, evl, threads, created, out >>

\* flb_input_set_collector_event(in, cb, fd, config), on a descriptor the
\* plugin has just opened
SetCollectorEvent(i, fd) ==
  /\ Len(collectors) < MaxCollectors
  /\ fd \notin fds
  /\ fds' = fds \cup {fd}
  /\ collectors' = set_collector_event(collectors, inputs[i].ptr, fd)
  /\ last' = Op("set_collector_event", Len(collectors'), 0, << >>, collectors'[Len(collectors')].id)
  /\ cb' = << >>
  /\ calls' = << >>
  /\ UNCHANGED << inputs, evl, threads, created, out >>

\* flb_input_set_collector_socket(in, cb, fd, config), on a descriptor the
\* plugin has just opened: returns 0
SetCollectorSocket(i, fd) ==
  /\ Len(collectors) < MaxCollectors
  /\ fd \notin fds
  /\ fds' = fds \cup {fd}
  /\ \E g \in UninitIds :
       collectors' = set_collector_socket(collectors, inputs[i].ptr, fd, g)
  /\ last' = Op("set_collector_socket", Len(collectors'), 0, << >>, 0)
  /\ cb' = << >>
  /\ calls' = << >>
  /\ UNCHANGED << inputs, evl, threads, created, out >>

\* get_collector: the position in the global list of the first collector of
\* instance ptr whose id is id, 0 if there is none
get_collector(colls, id, ptr) ==
  LET hits == { k \in DOMAIN colls : colls[k].instance = ptr /\ colls[k].id = id }
  IN IF hits = {} THEN 0 ELSE CHOOSE k \in hits : \A j \in hits : k <= j

\* collector_start without its test of the running flag
collector_start_noguard(coll, f, e, r) ==
  IF coll.type = FLB_COLLECT_TIME
    THEN IF r = -1
           THEN [coll |-> [coll EXCEPT !.running = FALSE],
                 fds |-> f, evl |-> e, ret |-> -1, ok |-> TRUE]
           ELSE [coll |-> [coll EXCEPT !.fd_timer = r, !.running = TRUE],
                 fds |-> f \cup {r}, evl |-> Subscribed(e, r, "READ"),
                 ret |-> 0, ok |-> r \in TimerResults(f)]
  ELSE IF r = -1
    THEN [coll |-> [coll EXCEPT !.running = FALSE],
          fds |-> Close(f, coll.fd_event), evl |-> Unsubscribed(e, coll.fd_event),
          ret |-> -1, ok |-> TRUE]
    ELSE [coll |-> [coll EXCEPT !.running = TRUE],
          fds |-> f, evl |-> Subscribed(e, coll.fd_event, "READ"),
          ret |-> 0, ok |-> r = 0 /\ r \in AddResults(f, coll.fd_event)]

\* collector_start(coll, config). r: what the reactor call returns (the new
\* timer's descriptor or -1 for TIME, mk_event_add's result otherwise).
\* ok: r is a result the reactor can give in this state.
collector_start(coll, f, e, r) ==
  IF coll.running
    THEN [coll |-> coll, fds |-> f, evl |-> e, ret |-> 0, ok |-> TRUE]
  ELSE IF coll.type = FLB_COLLECT_TIME
    THEN IF r = -1
           THEN [coll |-> [coll EXCEPT !.running = FALSE],
                 fds |-> f, evl |-> e, ret |-> -1, ok |-> TRUE]
           ELSE [coll |-> [coll EXCEPT !.fd_timer = r, !.running = TRUE],
                 fds |-> f \cup {r}, evl |-> Subscribed(e, r, "READ"),
                 ret |-> 0, ok |-> r \in TimerResults(f)]
  ELSE IF r = -1
    THEN [coll |-> [coll EXCEPT !.running = FALSE],
          fds |-> Close(f, coll.fd_event), evl |-> Unsubscribed(e, coll.fd_event),
          ret |-> -1, ok |-> TRUE]
    ELSE [coll |-> [coll EXCEPT !.running = TRUE],
          fds |-> f, evl |-> Subscribed(e, coll.fd_event, "READ"),
          ret |-> 0, ok |-> r = 0 /\ r \in AddResults(f, coll.fd_event)]

CollIds == -1..MaxCollectors

ReactorResults == FdPool \cup {0, -1}

\* flb_input_collector_start(coll_id, in)
CollectorStart(id, i) ==
  LET k == get_collector(collectors, id, inputs[i].ptr)
  IN /\ IF k = 0
          THEN /\ last' = Op("collector_start", 0, 0, << >>, -1)
               /\ UNCHANGED << collectors, fds, evl >>
          ELSE \E r \in ReactorResults :
                 LET s == collector_start(collectors[k], fds, evl, r)
                 IN /\ s.ok
                    /\ collectors' = [collectors EXCEPT ![k] = s.coll]
                    /\ fds' = s.fds
                    /\ evl' = s.evl
                    /\ last' = Op("collector_start", k,
                                  IF collectors[k].running THEN 0 ELSE r,
                                  << >>, s.ret)
     /\ cb' = << >>
     /\ calls' = << >>
     /\ UNCHANGED << inputs, threads, created, out >>

\* The loop of flb_input_collectors_start from collector k on; rs: what the
\* reactor returns to each collector's start.
RECURSIVE StartLoop(_, _, _, _, _)
StartLoop(k, colls, f, e, rs) ==
  IF k > Len(colls) THEN [collectors |-> colls, fds |-> f, evl |-> e, ok |-> TRUE]
  ELSE LET s == collector_start(colls[k], f, e, rs[k])
       IN IF ~s.ok THEN [collectors |-> colls, fds |-> f, evl |-> e, ok |-> FALSE]
          ELSE StartLoop(k + 1, [colls EXCEPT ![k] = s.coll], s.fds, s.evl, rs)

\* flb_input_collectors_start(config): returns 0 whatever happened
CollectorsStart ==
  /\ Len(collectors) > 0
  /\ \E rs \in [DOMAIN collectors -> ReactorResults] :
       LET s == StartLoop(1, collectors, fds, evl, rs)
       IN /\ s.ok
          /\ collectors' = s.collectors
          /\ fds' = s.fds
          /\ evl' = s.evl
  /\ last' = Op("collectors_start", 0, 0, << >>, 0)
  /\ cb' = << >>
  /\ calls' = << >>
  /\ UNCHANGED << inputs, threads, created, out >>

\* flb_input_collector_pause on the collector at position k; r: the result
\* of mk_event_add for a descriptor-backed collector
collector_pause(coll, f, e, r) ==
  IF coll.type = FLB_COLLECT_TIME
    THEN [coll |-> [coll EXCEPT !.fd_timer = -1, !.running = FALSE],
          fds |-> Close(f, coll.fd_timer),
          evl |-> Unsubscribed(e, coll.fd_timer),
          ret |-> 0, ok |-> TRUE]
    ELSE [coll |-> [coll EXCEPT !.running = FALSE],
          fds |-> f,
          evl |-> IF r = 0 THEN Subscribed(e, coll.fd_event, "IDLE") ELSE e,
          ret |-> 0, ok |-> r \in AddResults(f, coll.fd_event)]

\* flb_input_collector_pause(coll_id, in)
CollectorPause(id, i) ==
  LET k == get_collector(collectors, id, inputs[i].ptr)
  IN /\ IF k = 0
          THEN /\ last' = Op("collector_pause", 0, 0, << >>, -1)
               /\ UNCHANGED << collectors, fds, evl >>
          ELSE \E r \in {0, -1} :
                 LET s == collector_pause(collectors[k], fds, evl, r)
                 IN /\ s.ok
                    /\ collectors' = [collectors EXCEPT ![k] = s.coll]
                    /\ fds' = s.fds
                    /\ evl' = s.evl
                    /\ last' = Op("collector_pause", k, collectors[k].fd_timer,
                                  << >>, s.ret)
     /\ cb' = << >>
     /\ calls' = << >>
     /\ UNCHANGED << inputs, threads, created, out >>

\* flb_input_collector_resume without its test of the running flag
collector_resume_noguard(coll, f, e, r) ==
  IF coll.type = FLB_COLLECT_TIME
    THEN IF r = -1
           THEN [coll |-> coll, fds |-> f, evl |-> e, ret |-> -1, ok |-> TRUE]
           ELSE [coll |-> [coll EXCEPT !.fd_timer = r],
                 fds |-> f \cup {r}, evl |-> Subscribed(e, r, "READ"),
                 ret |-> 0, ok |-> r \in TimerResults(f)]
  ELSE IF r = -1
    THEN [coll |-> coll, fds |-> f, evl |-> e, ret |-> -1, ok |-> TRUE]
    ELSE [coll |-> coll,
          fds |-> f, evl |-> Subscribed(e, coll.fd_event, "READ"),
          ret |-> 0, ok |-> r = 0 /\ r \in AddResults(f, coll.fd_event)]

\* flb_input_collector_resume on a collector that was found; r as for
\* collector_start. The running flag is not assigned on any path.
collector_resume(coll, f, e, r) ==
  IF coll.running
    THEN [coll |-> coll, fds |-> f, evl |-> e, ret |-> -1, ok |-> TRUE]
  ELSE IF coll.type = FLB_COLLECT_TIME
    THEN IF r = -1
           THEN [coll |-> coll, fds |-> f, evl |-> e, ret |-> -1, ok |-> TRUE]
           ELSE [coll |-> [coll EXCEPT !.fd_timer = r],
                 fds |-> f \cup {r}, evl |-> Subscribed(e, r, "READ"),
                 ret |-> 0, ok |-> r \in TimerResults(f)]
  ELSE IF r = -1
    THEN [coll |-> coll, fds |-> f, evl |-> e, ret |-> -1, ok |-> TRUE]
    ELSE [coll |-> coll,
          fds |-> f, evl |-> Subscribed(e, coll.fd_event, "READ"),
          ret |-> 0, ok |-> r = 0 /\ r \in AddResults(f, coll.fd_event)]

\* flb_input_collector_resume(coll_id, in)
CollectorResume(id, i) ==
  LET k == get_collector(collectors, id, inputs[i].ptr)
  IN /\ IF k = 0
          THEN /\ last' = Op("collector_resume", 0, 0, << >>, -1)
               /\ UNCHANGED << collectors, fds, evl >>
          ELSE \E r \in ReactorResults :
                 LET s == collector_resume(collectors[k], fds, evl, r)
                 IN /\ s.ok
                    /\ collectors' = [collectors EXCEPT ![k] = s.coll]
                    /\ fds' = s.fds
                    /\ evl' = s.evl
                    /\ last' = Op("collector_resume", k,
                                  IF collectors[k].running THEN 0 ELSE r,
                                  << >>, s.ret)
     /\ cb' = << >>
     /\ calls' = << >>
     /\ UNCHANGED << inputs, threads, created, out >>

(* ------------------------------ dispatch ------------------------------- *)

\* the loop of flb_input_collector_fd without the reset of its cursor on a
\* collector that does not match: the last collector is left selected
find_collector_noreset(colls, fd) ==
  LET hits == { k \in DOMAIN colls : colls[k].fd_event = fd \/ colls[k].fd_timer = fd }
  IN IF hits = {} THEN Len(colls) ELSE CHOOSE k \in hits : \A j \in hits : k <= j

\* the loop of flb_input_collector_fd: the position of the first collector
\* whose fd_event or fd_timer is fd, 0 if there is none
find_collector(colls, fd) ==
  LET hits == { k \in DOMAIN colls : colls[k].fd_event = fd \/ colls[k].fd_timer = fd }
  IN IF hits = {} THEN 0 ELSE CHOOSE k \in hits : \A j \in hits : k <= j

\* the instance a collector points to, as a position in the registry (0 if
\* it is no longer there)
InstanceAt(ins, ptr) ==
  IF \E i \in DOMAIN ins : ins[i].ptr = ptr
    THEN CHOOSE i \in DOMAIN ins : ins[i].ptr = ptr
    ELSE 0

\* flb_input_collector_fd(fd, config) when fd matches no collector
CollectorFdNoMatch(fd) ==
  /\ find_collector(collectors, fd) = 0
  /\ last' = Op("collector_fd", fd, 0, << >>, -1)
  /\ cb' = << >>
  /\ calls' = << >>
  /\ UNCHANGED << inputs, collectors, fds, evl, threads, created, out >>

\* flb_input_collector_fd(fd, config) on a match whose instance is not
\* threaded: the callback runs inline
CollectorFdInline(fd) ==
  LET k == find_collector(collectors, fd)
  IN /\ k # 0
     /\ InstanceAt(inputs, collectors[k].instance) # 0
     /\ ~inputs[InstanceAt(inputs, collectors[k].instance)].threaded
     /\ cb' = << k >>
     /\ calls' = << >>
     /\ last' = Op("collector_fd", fd, k, << >>, 0)
     /\ UNCHANGED << inputs, collectors, fds, evl, threads, created, out >>

\* flb_input_collector_fd(fd, config) on a match whose instance is threaded:
\* a worker task is created and resumed; the callback runs in it until it
\* returns (done) or yields
CollectorFdThread(fd, done) ==
  LET k == find_collector(collectors, fd)
  IN /\ k # 0
     /\ InstanceAt(inputs, collectors[k].instance) # 0
     /\ inputs[InstanceAt(inputs, collectors[k].instance)].threaded
     /\ cb' = << k >>
     /\ calls' = << >>
     /\ IF done THEN threads' = threads
        ELSE /\ Len(threads) < MaxThreads
             /\ threads' = Append(threads, k)
     /\ last' = Op("collector_fd", fd, k, << >>, 0)
     /\ UNCHANGED << inputs, collectors, fds, evl, created, out >>

\* a worker task that had yielded is resumed and its callback returns
ThreadReturn(t) ==
  /\ t \in DOMAIN threads
  /\ threads' = [k \in 1..(Len(threads) - 1) |->
                   IF k < t THEN threads[k] ELSE threads[k + 1]]
  /\ last' = Op("thread_return", t, 0, << >>, 0)
  /\ cb' = << >>
  /\ calls' = << >>
  /\ UNCHANGED << inputs, collectors, fds, evl, created, out >>

(* --- the collector registry's specification --- *)

\* two instances, as two flb_input_new calls leave them: "a.0" and the
\* threaded "ab.0"
InitColl ==
  /\ LET r == flb_input_new(<< >>, << >>, <<"A", "b">>, {})
     IN inputs = r.inputs /\ created = r.created
  /\ InitCommon

NextColl ==
  \/ \E i \in DOMAIN inputs : SetCollectorTime(i)
  \/ \E i \in DOMAIN inputs, fd \in FdPool : SetCollectorEvent(i, fd)
  \/ \E i \in DOMAIN inputs, fd \in FdPool : SetCollectorSocket(i, fd)
  \/ \E id \in CollIds, i \in DOMAIN inputs : CollectorStart(id, i)
  \/ CollectorsStart
  \/ \E id \in CollIds, i \in DOMAIN inputs : CollectorPause(id, i)
  \/ \E id \in CollIds, i \in DOMAIN inputs : CollectorResume(id, i)
  \/ \E fd \in FdPool : CollectorFdNoMatch(fd)
  \/ \E fd \in FdPool : CollectorFdInline(fd)
  \/ \E fd \in FdPool, done \in BOOLEAN : CollectorFdThread(fd, done)
  \/ \E t \in 1..MaxThreads : ThreadReturn(t)

SpecColl == InitColl /\ [][NextColl]_vars

\* the lifecycle of collectors, without dispatch
NextLife ==
  \/ \E i \in DOMAIN inputs :
       Len(collectors) < MaxLifeCollectors /\ SetCollectorTime(i)
  \/ \E i \in DOMAIN inputs, fd \in FdPool :
       Len(collectors) < MaxLifeCollectors /\ SetCollectorEvent(i, fd)
  \/ \E i \in DOMAIN inputs, fd \in FdPool :
       Len(collectors) < MaxLifeCollectors /\ SetCollectorSocket(i, fd)
  \/ \E id \in CollIds, i \in DOMAIN inputs : CollectorStart(id, i)
  \/ CollectorsStart
  \/ \E id \in CollIds, i \in DOMAIN inputs : CollectorPause(id, i)
  \/ \E id \in CollIds, i \in DOMAIN inputs : CollectorResume(id, i)

SpecLife == InitColl /\ [][NextLife]_vars

\* instances with collectors, and the bulk pause
NextPause ==
  \/ \E input \in Inputs : New(input)
  \/ \E i \in DOMAIN inputs :
       Len(collectors) < MaxLifeCollectors /\ SetCollectorTime(i)
  \/ CollectorsStart
  \/ PauseAll

SpecPause == InitReg /\ [][NextPause]_vars

\* registration, start, pause and dispatch
NextDisp ==
  \/ \E i \in DOMAIN inputs :
       Len(collectors) < MaxLifeCollectors /\ SetCollectorTime(i)
  \/ \E i \in DOMAIN inputs, fd \in FdPool :
       Len(collectors) < MaxLifeCollectors /\ SetCollectorEvent(i, fd)
  \/ CollectorsStart
  \/ \E id \in CollIds, i \in DOMAIN inputs : CollectorPause(id, i)
  \/ \E fd \in FdPool : CollectorFdNoMatch(fd)
  \/ \E fd \in FdPool : CollectorFdInline(fd)
  \/ \E fd \in FdPool, done \in BOOLEAN : CollectorFdThread(fd, done)
  \/ \E t \in 1..MaxThreads : ThreadReturn(t)

SpecDisp == InitColl /\ [][NextDisp]_vars

(* ----------------------- dynamic-tag buffer pool ----------------------- *)

\* the tags append is called with: none, "x", and two tags of one length
\* that differ only after a 0 byte
Tags == { << >>, << 120 >>, << 120, 0, 121 >>, << 120, 0, 122 >> }

\* the byte length of each block of data that is appended: two of the first
\* make 2,048,000 bytes
ChunkLen == << 1024000, 2000001 >>

Chunks == DOMAIN ChunkLen

\* mp_sbuf.size
RECURSIVE Size(_)
Size(data) == IF data = << >> THEN 0
              ELSE ChunkLen[data[1]] + Size(Tail(data))

\* the size above which a buffer is locked
LockSize == 2048000

\* strncmp(a, b, n) == 0 from byte k on, for a and b of n bytes: the
\* comparison ends at the first 0 byte
RECURSIVE StrnEqFrom(_, _, _, _)
StrnEqFrom(a, b, k, n) ==
  IF k > n THEN TRUE
  ELSE IF a[k] # b[k] THEN FALSE
  ELSE IF a[k] = 0 THEN TRUE
  ELSE StrnEqFrom(a, b, k + 1, n)

StrnEq(a, b, n) == StrnEqFrom(a, b, 1, n)

\* the test of flb_input_dyntag_get's loop on one node
DyntagMatches(dt, tag) ==
  /\ ~(dt.busy \/ dt.lock)
  /\ Len(dt.tag) = Len(tag)
  /\ StrnEq(dt.tag, tag, Len(tag))

\* flb_input_dyntag_create: the node it makes
NewDyntag(tag) == [tag |-> tag, busy |-> FALSE, lock |-> FALSE, data |-> << >>]

\* flb_input_dyntag_get without its walk of the list
dyntag_get_nolookup(dts, tag) ==
  IF Len(tag) < 1
    THEN [dyntags |-> dts, j |-> 0]
    ELSE [dyntags |-> Append(dts, [tag |-> tag, busy |-> FALSE,
                                   lock |-> FALSE, data |-> << >>]),
          j |-> Len(dts) + 1]

\* flb_input_dyntag_get(tag, tag_len, in): the list after the call and the
\* position of the node returned (0: NULL)
dyntag_get(dts, tag) ==
  LET hits == { j \in DOMAIN dts : DyntagMatches(dts[j], tag) }
  IN IF hits # {}
       THEN [dyntags |-> dts, j |-> CHOOSE j \in hits : \A h \in hits : j <= h]
     ELSE IF Len(tag) < 1
       THEN [dyntags |-> dts, j |-> 0]
     ELSE [dyntags |-> Append(dts, NewDyntag(tag)), j |-> Len(dts) + 1]

\* flb_input_dyntag_append_raw without its test of the size
dyntag_append_nolock(dts, tag, c) ==
  LET g == dyntag_get(dts, tag)
  IN IF g.j = 0 THEN [dyntags |-> dts, j |-> 0, ret |-> -1]
     ELSE [dyntags |-> [g.dyntags EXCEPT ![g.j].data = Append(@, c)],
           j |-> g.j, ret |-> 0]

\* flb_input_dyntag_append_raw(in, tag, tag_len, buf, buf_size) on the list
\* of the instance: the list after the call, the node written, the result
dyntag_append(dts, tag, c) ==
  LET g == dyntag_get(dts, tag)
  IN IF g.j = 0 THEN [dyntags |-> dts, j |-> 0, ret |-> -1]
     ELSE LET data == Append(g.dyntags[g.j].data, c)
          IN [dyntags |-> [g.dyntags EXCEPT ![g.j].data = data,
                                            ![g.j].lock = IF Size(data) > LockSize
                                                            THEN TRUE ELSE @],
              j |-> g.j, ret |-> 0]

\* the model's bound on an instance's list of nodes
WithinBufBounds(dts) == Len(dts) <= MaxDyntags

\* the values the caller's size variable can hold when flush does not
\* assign it
UninitSizes == {0, 7}

\* flb_input_dyntag_append_raw(in, tag, tag_len, buf, buf_size)
DyntagAppendRaw(i, tag, c) ==
  LET r == dyntag_append(inputs[i].dyntags, tag, c)
  IN /\ WithinBufBounds(r.dyntags)
     /\ inputs' = [inputs EXCEPT ![i].dyntags = r.dyntags]
     /\ last' = Op("dyntag_append", r.j, c, tag, r.ret)
     /\ cb' = << >>
     /\ calls' = << >>
     /\ out' = OutNone
     /\ UNCHANGED << collectors, fds, evl, threads, created >>

\* flb_input_dyntag_append_obj(in, tag, tag_len, data): as append_raw, the
\* bytes written being the encoding of the object
DyntagAppendObj(i, tag, c) ==
  LET r == dyntag_append(inputs[i].dyntags, tag, c)
  IN /\ WithinBufBounds(r.dyntags)
     /\ inputs' = [inputs EXCEPT ![i].dyntags = r.dyntags]
     /\ last' = Op("dyntag_append", r.j, c, tag, r.ret)
     /\ cb' = << >>
     /\ calls' = << >>
     /\ out' = OutNone
     /\ UNCHANGED << collectors, fds, evl, threads, created >>

\* a released msgpack_sbuffer has no data: its pointer is NULL
BufPtr(data) == IF data = << >> THEN NULL ELSE data

\* flb_input_dyntag_flush without the re-initialisation of the buffer
dyntag_flush_noreset(dt) == [dt EXCEPT !.lock = FALSE, !.busy = TRUE]

\* flb_input_dyntag_flush without the busy mark
dyntag_flush_nobusy(dt) == [dt EXCEPT !.lock = FALSE, !.data = << >>]

\* flb_input_dyntag_flush(dt, size): the node after the call
dyntag_flush(dt) == [dt EXCEPT !.lock = FALSE, !.busy = TRUE, !.data = << >>]

\* flb_input_dyntag_flush(dt, &size) on node j of instance i
DyntagFlush(i, j) ==
  /\ j \in DOMAIN inputs[i].dyntags
  /\ out' = [buf  |-> BufPtr(inputs[i].dyntags[j].data),
             size |-> Size(inputs[i].dyntags[j].data)]
  /\ inputs' = [inputs EXCEPT ![i].dyntags[j] = dyntag_flush(@)]
  /\ last' = Op("dyntag_flush", j, 0, inputs[i].dyntags[j].tag, 0)
  /\ cb' = << >>
  /\ calls' = << >>
  /\ UNCHANGED << collectors, fds, evl, threads, created >>

\* flb_input_dyntag_destroy(dt), as the engine calls it on the node of a
\* task that has completed
DyntagDestroy(i, j) ==
  /\ j \in DOMAIN inputs[i].dyntags
  /\ inputs[i].dyntags[j].busy
  /\ inputs' = [inputs EXCEPT ![i].dyntags =
                  [k \in 1..(Len(@) - 1) |-> IF k < j THEN @[k] ELSE @[k + 1]]]
  /\ last' = Op("dyntag_destroy", j, 0, inputs[i].dyntags[j].tag, 0)
  /\ cb' = << >>
  /\ calls' = << >>
  /\ out' = OutNone
  /\ UNCHANGED << collectors, fds, evl, threads, created >>

\* the plugin packs a record into the instance's own buffer through
\* in->mp_pck, which flb_input_new binds to in->mp_sbuf
Pack(i, c) ==
  /\ Len(inputs[i].mp_sbuf) < MaxPack
  /\ inputs' = [inputs EXCEPT ![i].mp_sbuf = Append(@, c),
                              ![i].mp_records = @ + 1]
  /\ last' = Op("pack", i, c, << >>, 0)
  /\ cb' = << >>
  /\ calls' = << >>
  /\ out' = OutNone
  /\ UNCHANGED << collectors, fds, evl, threads, created >>

\* flb_input_flush(i_ins, &size): on an empty buffer it returns 0 and does
\* not assign *size
Flush(i) ==
  /\ IF Size(inputs[i].mp_sbuf) = 0
       THEN /\ \E sz \in UninitSizes : out' = [buf |-> NULL, size |-> sz]
            /\ inputs' = inputs
       ELSE /\ out' = [buf |-> inputs[i].mp_sbuf, size |-> Size(inputs[i].mp_sbuf)]
            /\ inputs' = [inputs EXCEPT ![i].mp_records = 0, ![i].mp_sbuf = << >>]
  /\ last' = Op("flush", i, 0, << >>, 0)
  /\ cb' = << >>
  /\ calls' = << >>
  /\ UNCHANGED << collectors, fds, evl, threads, created >>

(* --- the buffer pool's specification --- *)

\* one instance of the plugin that takes dynamic tags, as flb_input_new
\* leaves it
InitBuf ==
  /\ LET r == flb_input_new(<< >>, << >>, <<"d">>, {})
     IN inputs = r.inputs /\ created = r.created
  /\ InitCommon

NextBuf ==
  \/ \E i \in DOMAIN inputs, tag \in Tags, c \in Chunks : DyntagAppendRaw(i, tag, c)
  \/ \E i \in DOMAIN inputs, tag \in Tags, c \in Chunks : DyntagAppendObj(i, tag, c)
  \/ \E i \in DOMAIN inputs, j \in 1..MaxDyntags : DyntagFlush(i, j)
  \/ \E i \in DOMAIN inputs, j \in 1..MaxDyntags : DyntagDestroy(i, j)

SpecBuf == InitBuf /\ [][NextBuf]_vars

\* the two flush operations: appends under the tag "x", records packed into
\* the instance's own buffer, and both flushes
NextFlush ==
  \/ \E i \in DOMAIN inputs, c \in Chunks : DyntagAppendRaw(i, << 120 >>, c)
  \/ \E i \in DOMAIN inputs, c \in Chunks : DyntagAppendObj(i, << 120 >>, c)
  \/ \E i \in DOMAIN inputs, j \in 1..MaxDyntags : DyntagFlush(i, j)
  \/ \E i \in DOMAIN inputs, c \in Chunks : Pack(i, c)
  \/ \E i \in DOMAIN inputs : Flush(i)

SpecFlush == InitBuf /\ [][NextFlush]_vars

\* an instance with dyntag nodes and a buffer of its own, and the exit
NextExit ==
  \/ \E i \in DOMAIN inputs, c \in Chunks : DyntagAppendRaw(i, << 120 >>, c)
  \/ \E i \in DOMAIN inputs, j \in 1..MaxDyntags : DyntagFlush(i, j)
  \/ \E i \in DOMAIN inputs, c \in Chunks : Pack(i, c)
  \/ \E i \in DOMAIN inputs : Flush(i)
  \/ ExitAll

SpecExit == InitBuf /\ [][NextExit]_vars

(* ======================================================================= *)
(*                               The claims                                *)
(* ======================================================================= *)

TheIns == inputs[1]

(* ---- C1 ---- *)

\* C1: a pause of a TIME collector followed by a resume of it whose timer
\* creation succeeds leaves the collector with running = true and with a
\* timer handle that is open and differs from the one the pause released.
C1_PauseResumeRuns ==
  [][ \A k \in DOMAIN collectors :
        ( /\ collectors[k].type = FLB_COLLECT_TIME
          /\ last.op = "collector_pause" /\ last.a = k /\ last.ret = 0
          /\ last.b \in FdPool
          /\ last'.op = "collector_resume" /\ last'.a = k /\ last'.ret = 0 )
        => ( /\ collectors'[k].running
             /\ collectors'[k].fd_timer \in fds'
             /\ collectors'[k].fd_timer # last.b ) ]_vars

(* ---- C2 ---- *)

\* the position of global collector k in its instance's own list
OwnIndex(colls, k) ==
  Cardinality({ j \in 1..k : colls[j].instance = colls[k].instance })

\* C2: on every instance the ids stored on the collectors are 0, 1, 2, ...
\* in registration order, whatever their kinds, and a registration returns
\* the id it stored.
C2_IdsSequential ==
  /\ \A k \in DOMAIN collectors : collectors[k].id = OwnIndex(collectors, k) - 1
  /\ ( last.op \in {"set_collector_time", "set_collector_event", "set_collector_socket"}
       => last.ret = OwnIndex(collectors, last.a) - 1 )

(* ---- C3 ---- *)

\* C3: resume of a collector whose running flag is true returns -1 and
\* leaves the collector, the open descriptors and the subscriptions as they
\* were.
C3_ResumeRunningFails ==
  [][ \A k \in DOMAIN collectors :
        ( collectors[k].running /\ last'.op = "collector_resume" /\ last'.a = k )
        => ( /\ last'.ret = -1
             /\ collectors' = collectors
             /\ fds' = fds
             /\ evl' = evl ) ]_vars

\* a resume has just failed on a collector that is running and subscribed
C3_Witness ==
  /\ last.op = "collector_resume"
  /\ last.a \in DOMAIN collectors
  /\ last.ret = -1
  /\ collectors[last.a].running
  /\ collectors[last.a].fd_timer \in fds
  /\ evl[collectors[last.a].fd_timer] = "READ"

(* ---- C4 ---- *)

\* the ids given to the instances of plugin p, in creation order
RECURSIVE IdsOf(_, _)
IdsOf(crt, p) ==
  IF crt = << >> THEN << >>
  ELSE IF crt[1][1] = p THEN << crt[1][2] >> \o IdsOf(Tail(crt), p)
  ELSE IdsOf(Tail(crt), p)

\* C4: the indices given to the instances of one plugin type are 0..n-1 in
\* creation order, and the names of the instances in the registry are
\* pairwise distinct.
C4_IndicesAndNames ==
  /\ \A p \in DOMAIN in_plugins :
       \A n \in DOMAIN IdsOf(created, p) : IdsOf(created, p)[n] = n - 1
  /\ \A i, j \in DOMAIN inputs : i # j => inputs[i].name # inputs[j].name

(* ---- C5 ---- *)

IsAppend(l) == l.op = "dyntag_append"

\* C5: an append of a (non-empty) tag writes into no buffer that is busy or
\* locked, and when every buffer whose tag equals the appended tag byte for
\* byte is busy or locked, it creates a buffer that receives the data and
\* changes no other.
C5_NeverIntoBusyOrLocked ==
  [][ ( IsAppend(last') /\ Len(last'.tag) >= 1 )
      => LET old == TheIns.dyntags
             new == inputs'[1].dyntags
         IN /\ \A j \in DOMAIN old :
                 (old[j].busy \/ old[j].lock) => new[j] = old[j]
            /\ ( \A j \in DOMAIN old :
                   old[j].tag = last'.tag => (old[j].busy \/ old[j].lock) )
               => ( /\ Len(new) = Len(old) + 1
                    /\ new[Len(new)].tag = last'.tag
                    /\ new[Len(new)].data = << last'.b >>
                    /\ \A j \in DOMAIN old : new[j] = old[j] ) ]_vars

(* ---- C6 ---- *)

\* every buffer that holds more than n bytes after the step is locked
LockedAbove(n) ==
  \A j \in DOMAIN inputs'[1].dyntags :
    Size(inputs'[1].dyntags[j].data) > n => inputs'[1].dyntags[j].lock

\* the append that follows the append that locked a buffer, under the same
\* tag, creates a second buffer with that tag, holding just its data, and
\* leaves the locked buffer as it was
NextAppendOpensSecond ==
  ( /\ IsAppend(last) /\ last.ret = 0 /\ TheIns.dyntags[last.a].lock
    /\ IsAppend(last') /\ last'.tag = TheIns.dyntags[last.a].tag )
  => LET old == TheIns.dyntags
         new == inputs'[1].dyntags
     IN /\ Len(new) = Len(old) + 1
        /\ new[Len(new)] = [NewDyntag(last'.tag) EXCEPT !.data = << last'.b >>]
        /\ new[last.a] = old[last.a]

TagCount(dts, tag) == Cardinality({ j \in DOMAIN dts : dts[j].tag = tag })

\* the second of two consecutive appends under one tag, the first of which
\* went to a buffer of that tag, extends that buffer and creates none
SecondAppendExtends ==
  LET old == TheIns.dyntags
      new == inputs'[1].dyntags
  IN /\ last'.a = last.a
     /\ new[last.a].data = Append(old[last.a].data, last'.b)
     /\ old[last.a].data[Len(old[last.a].data)] = last.b
     /\ TagCount(new, last'.tag) = TagCount(old, last'.tag)

TwoAppends ==
  /\ IsAppend(last) /\ last.ret = 0
  /\ TheIns.dyntags[last.a].tag = last.tag
  /\ IsAppend(last') /\ last'.tag = last.tag

\* C7 as stated: append(x, A) then append(x, B) to a buffer that is neither
\* busy nor locked leave one buffer for x, holding A then B.
C7_TwoAppendsOneBuffer ==
  [][ TwoAppends => SecondAppendExtends ]_vars

\* C7, amended: the same, provided A does not bring the buffer's size above
\* 2,048,000 bytes (which locks it).
C7_TwoAppendsUnlessLocked ==
  [][ ( TwoAppends /\ Size(TheIns.dyntags[last.a].data) <= 2048000 )
      => SecondAppendExtends ]_vars

\* two appends in a row have gone to one buffer
C7_Witness ==
  /\ IsAppend(last) /\ last.ret = 0
  /\ TheIns.dyntags[last.a].tag = last.tag
  /\ Len(TheIns.dyntags[last.a].data) = 2
  /\ ~TheIns.dyntags[last.a].lock
  /\ TagCount(TheIns.dyntags, last.tag) = 1

(* ---- C8 ---- *)

\* a flush of a dyntag node hands out the node's bytes and their size and
\* empties the node; an append adds just its block to the node it writes
FlushHandsOut ==
  /\ last'.op = "dyntag_flush"
     => /\ out'.buf = BufPtr(TheIns.dyntags[last'.a].data)
        /\ out'.size = Size(TheIns.dyntags[last'.a].data)
        /\ inputs'[1].dyntags[last'.a].data = << >>
  /\ ( IsAppend(last') /\ last'.ret = 0 )
     => inputs'[1].dyntags[last'.a].data =
          IF last'.a \in DOMAIN TheIns.dyntags
            THEN Append(TheIns.dyntags[last'.a].data, last'.b)
            ELSE << last'.b >>
  /\ last'.op = "pack" => inputs'[1].mp_sbuf = Append(TheIns.mp_sbuf, last'.b)
  /\ ( last'.op = "flush" /\ TheIns.mp_sbuf # << >> )
     => /\ out'.buf = TheIns.mp_sbuf
        /\ out'.size = Size(TheIns.mp_sbuf)
        /\ inputs'[1].mp_sbuf = << >>

\* a second flush of a dyntag node, nothing appended in between
SecondDyntagFlush ==
  ( last.op = "dyntag_flush" /\ last'.op = "dyntag_flush" /\ last'.a = last.a )
  => ( out'.buf = NULL /\ out'.size = 0 )

\* C8 as stated: a flush returns the bytes appended since the previous
\* flush with their size and leaves the buffer empty, and a second flush
\* with no append in between reports size 0, for a dyntag node and for the
\* instance's own buffer.
C8_FlushExact ==
  [][ /\ FlushHandsOut
      /\ SecondDyntagFlush
      /\ ( last.op = "flush" /\ last'.op = "flush" )
         => ( out'.buf = NULL /\ out'.size = 0 ) ]_vars

\* C8, amended: as stated, but a flush of the instance's own buffer when
\* it is empty returns no block and leaves the caller's size unassigned.
C8_FlushExactSizeUnassigned ==
  [][ /\ FlushHandsOut
      /\ SecondDyntagFlush
      /\ ( last'.op = "flush" /\ TheIns.mp_sbuf = << >> )
         => ( out'.buf = NULL /\ inputs' = inputs ) ]_vars

\* a node that was flushed before has been flushed again: nothing came out
C8_Witness ==
  /\ last.op = "dyntag_flush"
  /\ out.buf = NULL /\ out.size = 0
  /\ TheIns.dyntags[last.a].busy
  /\ TheIns.mp_sbuf # << >>

(* ---- C9 ---- *)

AppendAfterFlush ==
  /\ last.op = "dyntag_flush"
  /\ IsAppend(last') /\ last'.ret = 0
  /\ last'.tag = TheIns.dyntags[last.a].tag

C10_TimerDispatch ==
  [][ \A k \in DOMAIN collectors :
        ( /\ collectors[k].type = FLB_COLLECT_TIME
          /\ collectors[k].running
          /\ last'.op = "collector_fd"
          /\ last'.a = collectors[k].fd_timer )
        => ( /\ last'.ret = 0
             /\ cb' = << k >>
             /\ collectors'[k].running ) ]_vars

(* ---- C11 ---- *)

\* C11: a start of a collector that is running returns 0, creates no timer
\* and subscribes nothing; a start or a resume of a collector that is not
\* running in which the reactor call fails returns -1 and leaves the
\* collector with running = false.
C11_StartIdempotentFailureStops ==
  [][ \A k \in DOMAIN collectors :
        /\ ( collectors[k].running /\ last'.op = "collector_start" /\ last'.a = k )
           => ( /\ last'.ret = 0
                /\ collectors' = collectors
                /\ fds' = fds
                /\ evl' = evl )
        /\ ( /\ ~collectors[k].running
             /\ last'.op \in {"collector_start", "collector_resume"}
             /\ last'.a = k
             /\ last'.b = -1 )
           => ( last'.ret = -1 /\ ~collectors'[k].running ) ]_vars

\* a start has just returned 0 on a TIME collector without calling the
\* reactor: the collector was running, and it is
C11_Witness ==
  /\ last.op = "collector_start"
  /\ last.a \in DOMAIN collectors
  /\ collectors[last.a].type = FLB_COLLECT_TIME
  /\ last.b = 0 /\ last.ret = 0
  /\ collectors[last.a].running
  /\ collectors[last.a].fd_timer \in fds

(* ---- C20 ---- *)

\* C20: a TIME collector holds a timer handle if and only if its running
\* flag is true.
C20_TimerIffRunning ==
  \A k \in DOMAIN collectors :
    collectors[k].type = FLB_COLLECT_TIME
      => ( collectors[k].fd_timer # -1 <=> collectors[k].running )

(* ---- C12 ---- *)

InProgress == { threads[t] : t \in DOMAIN threads }

\* C19: in every state at most one worker task of a collector is spawned
\* and not yet completed, so that at most one invocation of the collector's
\* callback is in progress.
C19_OneCallbackPerCollector ==
  \A k \in InProgress :
    Cardinality({ t \in DOMAIN threads : threads[t] = k }) <= 1

(* ---- C13 ---- *)

NotPaused(ins) == { i \in DOMAIN ins : ins[i].mp_buf_status # "PAUSED" }

\* C13: flb_input_pause_all returns the number of instances that were not
\* PAUSED, leaves every instance PAUSED and otherwise as it was, invokes
\* cb_pause for instances that were not PAUSED only, once each at most, and
\* changes no collector, descriptor or subscription; called again right
\* away it returns 0.
C13_PauseAll ==
  [][ last'.op = "pause_all"
      => /\ last'.ret = Cardinality(NotPaused(inputs))
         /\ DOMAIN inputs' = DOMAIN inputs
         /\ \A i \in DOMAIN inputs :
              inputs'[i] = [inputs[i] EXCEPT !.mp_buf_status = "PAUSED"]
         /\ \A n \in DOMAIN calls' :
              /\ calls'[n].f = "cb_pause"
              /\ \E i \in NotPaused(inputs) : inputs[i].ptr = calls'[n].ptr
              /\ \A m \in DOMAIN calls' : calls'[m] = calls'[n] => m = n
         /\ collectors' = collectors /\ fds' = fds /\ evl' = evl
         /\ ( last.op = "pause_all" => last'.ret = 0 ) ]_vars

\* a pause_all has just paused one instance beside one that was paused
\* already, and called the cb_pause of the first one only, while a
\* collector is running
C13_Witness ==
  /\ last.op = "pause_all" /\ last.ret = 1
  /\ Len(inputs) >= 2
  /\ Len(calls) = 1
  /\ \A i \in DOMAIN inputs : inputs[i].mp_buf_status = "PAUSED"
  /\ \E k \in DOMAIN collectors : collectors[k].running

(* ---- C14 ---- *)

Called(cs, f, ptr) == \E n \in DOMAIN cs : cs[n] = Call(f, ptr)

\* s is t without some of its elements, the others in t's order
RECURSIVE IsSubSeq(_, _)
IsSubSeq(s, t) ==
  IF s = << >> THEN TRUE
  ELSE IF t = << >> THEN FALSE
  ELSE IF s[1] = t[1] THEN IsSubSeq(Tail(s), Tail(t))
  ELSE IsSubSeq(s, Tail(t))

Ptrs(ins) == [i \in DOMAIN ins |-> ins[i].ptr]

\* C14: after flb_input_initialize_all an instance whose cb_init failed is
\* not in the registry and no collector of the global list belongs to it;
\* the other instances are in the registry, in their order, and their
\* cb_init has been called.
C14_FailedInitRemoved ==
  [][ last'.op = "initialize_all"
      => /\ \A i \in DOMAIN inputs :
              IF Called(calls', "flb_free", inputs[i].ptr)
                THEN /\ \A j \in DOMAIN inputs' : inputs'[j].ptr # inputs[i].ptr
                     /\ \A k \in DOMAIN collectors' :
                          collectors'[k].instance # inputs[i].ptr
                ELSE /\ \E j \in DOMAIN inputs' : inputs'[j].ptr = inputs[i].ptr
                     /\ Called(calls', "cb_init", inputs[i].ptr)
         /\ IsSubSeq(Ptrs(inputs'), Ptrs(inputs)) ]_vars

(* ---- C15 ---- *)

\* the plugins whose name is a prefix of the argument, case ignored
Matching(input) ==
  { k \in DOMAIN in_plugins :
      /\ Len(in_plugins[k].name) <= Len(input)
      /\ StrnCaseEq(in_plugins[k].name, input, Len(in_plugins[k].name)) }

LastOf(S) == CHOOSE k \in S : \A j \in S : j <= k

\* the create returned the instance it made of the last matching plugin
ReturnsLastMatching ==
  /\ last'.ret # 0
  /\ Len(inputs') > Len(inputs)
  /\ inputs'[Len(inputs')].ptr = last'.ret
  /\ inputs'[Len(inputs')].p = LastOf(Matching(last'.tag))
  /\ \A i \in DOMAIN inputs : inputs[i].ptr # last'.ret

NoMatchNoInstance ==
  ( last'.op = "new" /\ Matching(last'.tag) = {} )
  => ( last'.ret = 0 /\ inputs' = inputs )

\* C15 as stated: a create whose argument matches several plugins returns
\* the instance of the last of them; one whose argument matches none
\* returns no instance and leaves the registry as it was.
C15_LastMatchWins ==
  [][ /\ ( last'.op = "new" /\ Matching(last'.tag) # {} ) => ReturnsLastMatching
      /\ NoMatchNoInstance ]_vars

\* C15, amended: as stated, unless flb_net_host_set fails for a matching
\* plugin that uses the network: the create then returns no instance.
C15_LastMatchWinsUnlessNetFails ==
  [][ /\ ( last'.op = "new" /\ Matching(last'.tag) # {} )
         => IF last'.b = {} THEN ReturnsLastMatching ELSE last'.ret = 0
      /\ NoMatchNoInstance ]_vars

\* a create whose argument matches two plugins has just returned the
\* instance of the second
C15_Witness ==
  /\ last.op = "new"
  /\ Cardinality(Matching(last.tag)) = 2
  /\ last.ret # 0
  /\ inputs[Len(inputs)].ptr = last.ret
  /\ inputs[Len(inputs)].p = LastOf(Matching(last.tag))
  /\ inputs[Len(inputs) - 1].p # inputs[Len(inputs)].p

(* ---- C16 ---- *)

\* C16: flb_input_set_property with the key "tag" (case ignored) and a
\* value that resolves to the empty string changes nothing of the instance:
\* the tag and the property list stay as they were.
C16_EmptyTagNoOp ==
  [][ ( /\ last'.op = "set_property"
        /\ Len(last'.tag) = 3 /\ StrnCaseEq(last'.tag, <<"t", "a", "g">>, 3)
        /\ last'.b = << >> )
      => inputs' = inputs ]_vars

(* ---- C17 ---- *)

\* in the calls cs, the request to destroy the tasks of instance ptr is
\* made, once, and every call in fs for ptr comes after it
TasksBefore(cs, ptr, fs) ==
  /\ Cardinality({ n \in DOMAIN cs : cs[n] = Call("flb_engine_destroy_tasks", ptr) }) = 1
  /\ \A n, m \in DOMAIN cs :
       ( cs[n] = Call("flb_engine_destroy_tasks", ptr)
         /\ cs[m].ptr = ptr /\ cs[m].f \in fs ) => n < m

\* C17 as stated: in flb_input_exit_all the request to the engine to destroy
\* an instance's pending tasks comes before the release of the instance's
\* own buffer and before the destruction of its dyntag nodes.
C17_TasksBeforeBuffers ==
  [][ last'.op = "exit_all"
      => \A i \in DOMAIN inputs :
           TasksBefore(calls', inputs[i].ptr,
                       {"msgpack_sbuffer_destroy", "flb_input_dyntag_destroy"}) ]_vars

\* C17, amended: the request comes before the destruction of every dyntag
\* node of the instance and before the release of the instance, and after
\* the release of the instance's own buffer.
C17_TasksBeforeDyntags ==
  [][ last'.op = "exit_all"
      => \A i \in DOMAIN inputs :
           /\ TasksBefore(calls', inputs[i].ptr,
                          {"flb_input_dyntag_destroy", "flb_free"})
           /\ Cardinality({ n \in DOMAIN calls' :
                              calls'[n] = Call("flb_input_dyntag_destroy", inputs[i].ptr) })
                = Len(inputs[i].dyntags)
           /\ \E m, n \in DOMAIN calls' :
                /\ m < n
                /\ calls'[m] = Call("msgpack_sbuffer_destroy", inputs[i].ptr)
                /\ calls'[n] = Call("flb_engine_destroy_tasks", inputs[i].ptr) ]_vars

\* an exit has just destroyed the tasks and then two dyntag nodes of an
\* instance
C17_Witness ==
  /\ last.op = "exit_all"
  /\ \E n \in DOMAIN calls :
       /\ calls[n].f = "flb_engine_destroy_tasks"
       /\ n + 2 \in DOMAIN calls
       /\ calls[n + 1] = Call("flb_input_dyntag_destroy", calls[n].ptr)
       /\ calls[n + 2] = Call("flb_input_dyntag_destroy", calls[n].ptr)

(* ---- C18 ---- *)

\* the instances a step takes out of the registry
TornDown == { inputs[i].ptr : i \in DOMAIN inputs }
              \ { inputs'[i].ptr : i \in DOMAIN inputs' }

\* C18: when flb_input_exit_all or flb_input_initialize_all takes an
\* instance out of the registry, no collector of that instance stays in the
\* global list, and the descriptors its collectors held are closed.
C18_CollectorsEndWithInstance ==
  [][ last'.op \in {"exit_all", "initialize_all"}
      => /\ \A k \in DOMAIN collectors' : collectors'[k].instance \notin TornDown
         /\ \A k \in DOMAIN collectors :
              collectors[k].instance \in TornDown
                => ( collectors[k].fd_timer \notin fds'
                     /\ collectors[k].fd_event \notin fds' ) ]_vars

(* ---- C21 ---- *)

\* the descriptor numbers collector k records
Recorded(colls, k) == { colls[k].fd_event, colls[k].fd_timer } \cap FdPool

\* C21: every timer created for a collector that the collector no longer
\* records has been closed: an open descriptor is the descriptor or the
\* timer handle of some collector, so a TIME collector has at most one open
\* timer.
C21_NoTimerLeftOpen ==
  \A fd \in fds : \E k \in DOMAIN collectors : fd \in Recorded(collectors, k)

(* ---- C22 ---- *)

\* C22: a dispatch on a descriptor that is subscribed for reading never
\* invokes the callback of a collector whose running flag is false.
C22_DispatchOnlyRunning ==
  [][ ( last'.op = "collector_fd" /\ cb' # << >> /\ evl[last'.a] = "READ" )
      => collectors[cb'[1]].running ]_vars

(* ---- C23 ---- *)

\* C23: every collector in the global list belongs to an instance that is in
\* the registry.
C23_CollectorsHaveInstance ==
  \A k \in DOMAIN collectors : InstanceAt(inputs, collectors[k].instance) # 0

(* ---- C24 ---- *)

\* C24: no collector records a closed descriptor, and no two collectors
\* record the same descriptor number.
C24_RecordedOpenAndDistinct ==
  /\ \A k \in DOMAIN collectors : Recorded(collectors, k) \subseteq fds
  /\ \A j, k \in DOMAIN collectors :
       j # k => Recorded(collectors, j) \cap Recorded(collectors, k) = {}

(* ---- C25 ---- *)

\* the instances a step puts into the registry
Added == { inputs'[i].ptr : i \in DOMAIN inputs' }
           \ { inputs[i].ptr : i \in DOMAIN inputs }

\* C25: a call of flb_input_new adds at most one instance to the registry,
\* the one it returns; a call that returns no instance adds none.
C25_CreateAddsWhatItReturns ==
  [][ last'.op = "new"
      => Added = IF last'.ret = 0 THEN {} ELSE { last'.ret } ]_vars

====
